---- MODULE Spec2Model ----
(***************************************************************************)
(* Model of the generation-serving core of IstoriaStudio's backend:        *)
(*   - the quota gate        (api/generated_asset/utils_quota.py)          *)
(*   - the generation route  (api/generated_asset/routes.py)               *)
(*   - the engine cache, the resolution budgeter and the fallback chain    *)
(*     (image_gen.py)                                                      *)
(*   - the subscription routes that change what the quota gate reads       *)
(*     (api/subscription/routes.py)                                        *)
(*                                                                         *)
(* Two specifications share the variables:                                 *)
(*   Spec      the endpoint state machine, requests interleaving at their  *)
(*             await points on one event loop;                             *)
(*   SpecPlan  the resolution budgeter as a pure function, applied to      *)
(*             inputs drawn from bounded sets.                             *)
(***************************************************************************)
EXTENDS Integers, Sequences, FiniteSets, TLC

(***************************************************************************)
(* Bounds of the model.                                                    *)
(***************************************************************************)
\* largest plan limit (Plan.max_generations_per_month) a subscription joins to
MaxLimit == 1
\* the widths and heights fed to the budgeter are 8, 16, ..., 8 * MaxDimSteps
MaxDimSteps == 180
\* SpecSnap: the integers 1..MaxSnapInput are snapped
MaxSnapInput == 1500
\* the clock of a run passes at most MaxMonth month boundaries
MaxMonth == 1

(***************************************************************************)
(* Program constants.                                                      *)
(***************************************************************************)
\* _snap_dim(n, base=64)
SnapBase == 64
\* min(settings.sd_max_mp, 1.0), in thousandths of a megapixel
HardCapMilliMp == 1000
\* Settings._mp_pos: max(0.1, v), in thousandths of a megapixel
MinMilliMp == 100
\* presign_get_url(ident, expires=3600)
PresignExpires == 3600

\* None of Python, where the other values are naturals (limits, handles)
None == -1

Max(a, b) == IF a >= b THEN a ELSE b
Min(a, b) == IF a <= b THEN a ELSE b

(***************************************************************************)
(* Resolution budgeter (pure functions of image_gen.py).                   *)
(***************************************************************************)

\* round(n / base) of Python 3 for integers n >= 0, base > 0: round half to even.
PyRound(n, base) ==
    LET q == n \div base
        r == n % base
    IN  IF 2 * r < base THEN q
        ELSE IF 2 * r > base THEN q + 1
        ELSE IF q % 2 = 0 THEN q ELSE q + 1

\* _snap_dim: max(base, int(round(n / base) * base))
snap_dim_Mut_Floor(n) == Max(SnapBase, (n \div SnapBase) * SnapBase)

snap_dim(n) == Max(SnapBase, PyRound(n, SnapBase) * SnapBase)

\* largest k in lo..hi with k * k <= x (lo * lo <= x assumed)
RECURSIVE ISqrtBetween(_, _, _)
ISqrtBetween(lo, hi, x) ==
    IF lo >= hi THEN lo
    ELSE LET mid == (lo + hi + 1) \div 2
         IN  IF mid * mid <= x THEN ISqrtBetween(mid, hi, x)
             ELSE ISqrtBetween(lo, mid - 1, x)

ISqrt(x) == ISqrtBetween(0, Min(x, 46340), x)

\* int(max_megapixels * 1_000_000), max_megapixels given in thousandths
MaxArea_Mut_Kilo(milli_mp) == milli_mp

MaxArea(milli_mp) == milli_mp * 1000

\* int(width * scale) with scale = (max_area / float(width * height)) ** 0.5,
\* that is floor(sqrt(width * max_area / height)); the quotient is computed in
\* two parts to stay inside 32-bit integers.
ScaledDim(width, height, max_area) ==
    LET q == max_area \div height
        r == max_area % height
    IN  ISqrt(width * q + ((width * r) \div height))

\* _maybe_downscale_for_budget(width, height, max_megapixels) -> (w, h, did_downscale)
maybe_downscale_for_budget(width, height, milli_mp) ==
    LET req_area == width * height
        max_area == MaxArea(milli_mp)
    IN  IF req_area <= max_area
        THEN [w |-> snap_dim(width), h |-> snap_dim(height), did |-> FALSE]
        ELSE [w |-> snap_dim(ScaledDim(width, height, max_area)),
              h |-> snap_dim(ScaledDim(height, width, max_area)),
              did |-> TRUE]

\* The RenderPlan of generate_image_key_or_url (image_gen.py lines 183-190):
\* target = the request snapped, render size = the budgeted size of the target.
RenderPlan(width, height, milli_mp) ==
    LET req_w == snap_dim(width)
        req_h == snap_dim(height)
        safe  == maybe_downscale_for_budget(req_w, req_h, milli_mp)
    IN  [render_width |-> safe.w, render_height |-> safe.h,
         target_width |-> req_w, target_height |-> req_h,
         downscaled |-> safe.did]

(***************************************************************************)
(* State.                                                                  *)
(***************************************************************************)
VARIABLES
    settings,   \* get_settings(): [sd_max_mp (thousandths of a MP), s3_endpoint, cuda]
    subs,       \* table subscription joined to plan: id -> row or NoRow
    assets,     \* table generated_asset: set of rows
    PIPE,       \* image_gen._PIPE: None or a handle (index into engines)
    PIPE_CPU,   \* image_gen._PIPE_CPU
    engines,    \* every engine constructed so far, in order of construction
    bucket,     \* artifacts written by the storage layer (S3 objects or local files)
    req,        \* the calls of generate_asset_endpoint: id -> frame
    running,    \* the call that occupies the event loop (synchronous section), or None
    plan_in,    \* SpecPlan: the budgeter's input, or None
    plan_out,   \* SpecPlan: the budgeter's result, or None
    month,      \* the calendar month (UTC) of the clock, counted from the start
    users,      \* table user: set of rows
    ucalls      \* the calls of get_or_create_user: id -> frame

vars == <<settings, subs, assets, PIPE, PIPE_CPU, engines, bucket, req, running,
          plan_in, plan_out, month, users, ucalls>>
planvars == <<plan_in, plan_out>>
uservars == <<users, ucalls>>
dbvars == <<subs, assets>>
enginevars == <<PIPE, PIPE_CPU, engines>>

\* the calls of generate_asset_endpoint of a run
Reqs == {1, 2}
Users == {"u1", "u2"}
SubIds == {"s1"}
PlanLimits == 0..MaxLimit
NoRow == [absent |-> TRUE]

\* (width, height) of the GenerateAssetRequest payloads
Sizes == {<<800, 1200>>, <<1408, 1408>>}
\* SD_MAX_MP values, in thousandths of a megapixel
Ceilings == {1000, 2000}
\* what an engine call can raise: RuntimeError "CUDA out of memory" /
\* "CUDNN_STATUS_ALLOC_FAILED"; RuntimeError "not implemented for 'Half'" /
\* "dtype=torch.float16 cannot run with cpu device"; any other exception
Errors == {"oom", "half", "other"}

\* Settings._mp_pos
mp_pos(v) == Max(MinMilliMp, v)

NoImage == [w |-> 0, h |-> 0, by |-> None]

\* The references the storage layer hands out. kind "key": an object key
\* generated/<project>/<uuid4().hex>.png; kind "url": <server_url>/generated/
\* <project>/<timestamp>.png; kind "signed": a presigned GET URL of a key,
\* valid for `expires` seconds. token is the uuid or the timestamp. All calls
\* of a run carry the same project_id.
NoIdent == [kind |-> "", token |-> None, expires |-> None]
NoResponse == [status |-> 0, detail |-> "", url |-> NoIdent, expiresIn |-> None,
               id |-> None]

\* the frame of a call of generate_asset_endpoint that has not started
IdleFrame ==
    [pc |-> "idle", route |-> "", user |-> "", width |-> 0, height |-> 0,
     persist |-> FALSE, ident |-> NoIdent,
     limit |-> None, used |-> 0, at |-> 0, admitted |-> FALSE,
     phase |-> "", pipe |-> None, cpu_pipe |-> None, kw |-> <<0, 0>>,
     primary_error |-> "", renders |-> <<>>, image |-> NoImage, is_key |-> FALSE,
     cold |-> FALSE, touched |-> FALSE, stored |-> FALSE, recorded |-> FALSE,
     fb_raised |-> FALSE, fail_at |-> "", asset_id |-> None,
     response |-> NoResponse]

\* a render on the CPU/FP32 engine of the call was invoked and raised
FallbackRaised(f) ==
    \E i \in 1..Len(f.renders) : f.renders[i].by = f.cpu_pipe /\ ~f.renders[i].ok

\* the frame of a call that has returned or raised: its locals are gone; what
\* stays is the response and the record of what the call did (who called, what
\* the gate read and in which month, what it touched, where it failed).
DoneFrame(f, fail_at, response) ==
    [IdleFrame EXCEPT !.pc = "done", !.route = f.route, !.user = f.user,
                      !.admitted = f.admitted,
                      !.limit = f.limit, !.used = f.used, !.at = f.at,
                      !.touched = f.touched, !.stored = f.stored,
                      !.recorded = f.recorded,
                      !.fb_raised = FallbackRaised(f), !.asset_id = f.asset_id,
                      !.fail_at = fail_at, !.response = response]

\* FastAPI's answer to HTTPException(403, detail) and to any other exception
Http403(detail) == [NoResponse EXCEPT !.status = 403, !.detail = detail]
Http500 == [NoResponse EXCEPT !.status = 500, !.detail = "Internal Server Error"]

NoPlanDetail == "No active subscription or plan found."
LimitDetail == "Generation limit reached for your plan."

(***************************************************************************)
(* Quota gate (utils_quota.py).                                            *)
(***************************************************************************)
ActiveSubs_Mut_IgnoreActive(user) ==
    {s \in DOMAIN subs : subs[s] # NoRow /\ subs[s].user_id = user}

ActiveSubs(user) ==
    {s \in DOMAIN subs : subs[s] # NoRow /\ subs[s].user_id = user /\ subs[s].active}

\* get_active_plan_limit: the rows the SELECT ... LIMIT 1 may return (no ORDER
\* BY: any active subscription of the user), or None when there is none.
get_active_plan_limit(user) ==
    IF ActiveSubs(user) = {} THEN {None}
    ELSE {subs[s].max_generations_per_month : s \in ActiveSubs(user)}

\* month_start of get_user_month_count: 00:00:00 UTC of day 1 of the month of
\* the clock; a created_at is at or after it when its month is not earlier
month_start == month

\* get_user_month_count: the rows of the user in generated_asset with
\* created_at >= month_start
get_user_month_count_Mut_AllUsers(user) ==
    Cardinality({a \in assets : a.created_at >= month_start})

get_user_month_count_Mut_AllMonths(user) ==
    Cardinality({a \in assets : a.user_id = user})

\* a count remembered from an earlier admit of the user
get_user_month_count_Mut_Cached(user) ==
    LET seen == {q \in DOMAIN req : req[q].user = user /\ req[q].admitted}
    IN  IF seen # {} THEN req[CHOOSE q \in seen : TRUE].used
        ELSE Cardinality({a \in assets : a.user_id = user /\ a.created_at >= month_start})

get_user_month_count(user) ==
    Cardinality({a \in assets : a.user_id = user /\ a.created_at >= month_start})

\* the two tests of enforce_monthly_quota (lines 57 and 63)
NoPlanDecision(limit) ==
    IF limit = None THEN "No active subscription or plan found." ELSE "ok"

LimitDecision_Mut_Never(limit, used) == "ok"

LimitDecision_Mut_Greater(limit, used) ==
    IF used > limit THEN "Generation limit reached for your plan." ELSE "ok"

LimitDecision(limit, used) ==
    IF used >= limit THEN "Generation limit reached for your plan." ELSE "ok"

(***************************************************************************)
(* Init.                                                                   *)
(***************************************************************************)
\* the deployments of a run: production (object store, accelerator) and local
\* development (local directory, no accelerator), under each ceiling
Configs ==
    {[sd_max_mp |-> mp_pos(c), s3_endpoint |-> prod, cuda |-> prod] :
        c \in Ceilings, prod \in BOOLEAN}

Init ==
    /\ settings \in Configs
    /\ subs = [s \in SubIds |-> NoRow]
    /\ assets = {}
    /\ PIPE = None
    /\ PIPE_CPU = None
    /\ engines = <<>>
    /\ bucket = {}
    /\ req = [r \in Reqs |-> IdleFrame]
    /\ running = None
    /\ plan_in = <<>>
    /\ plan_out = <<>>
    /\ month = 0
    /\ users = {}
    /\ ucalls = <<>>

(***************************************************************************)
(* generate_asset_endpoint (routes.py lines 133-174), one action per       *)
(* stretch between two await points or two engine/storage calls.           *)
(***************************************************************************)
\* current_user of call r: users are interchangeable, the first caller is u1
Callers(r) == IF r = 1 THEN {"u1"} ELSE Users

\* a client posts /generate (the calls are numbered in the order they arrive)
Start(r) ==
    /\ running = None
    /\ req[r].pc = "idle"
    /\ \A q \in DOMAIN req : q < r => req[q].pc # "idle"
    /\ \E u \in Callers(r) :
         req' = [req EXCEPT ![r] = [IdleFrame EXCEPT !.pc = "admit_limit",
                                                     !.route = "generate", !.user = u,
                                                     !.cold = (PIPE = None)]]
    /\ UNCHANGED <<settings, dbvars, enginevars, bucket, running, planvars, month, uservars>>

\* db.execute raises inside the gate: nothing catches it between the query and
\* the endpoint, so the call ends with the server error
ReadFailure_Mut_AsNoPlan == Http403(NoPlanDetail)

ReadFailure == Http500

\* where the endpoint goes when enforce_monthly_quota has read the limit
AfterLimit_Mut_Proceed(decision) ==
    IF decision = "ok" THEN "admit_count" ELSE "load_pipe"

AfterLimit(decision) == IF decision = "ok" THEN "admit_count" ELSE "raise"

\* enforce_monthly_quota lines 56-60: await get_active_plan_limit
AdmitReadLimit(r) ==
    /\ running = None
    /\ req[r].pc = "admit_limit"
    /\ \/ \* db.execute raises
          req' = [req EXCEPT ![r] = DoneFrame(@, "get_active_plan_limit", ReadFailure)]
       \/ \E limit \in get_active_plan_limit(req[r].user) :
            LET d == NoPlanDecision(limit) IN
            IF AfterLimit(d) = "raise"
            THEN req' = [req EXCEPT ![r] = DoneFrame(@, "enforce_monthly_quota", Http403(d))]
            ELSE req' = [req EXCEPT ![r].pc = AfterLimit(d), ![r].limit = limit]
    /\ UNCHANGED <<settings, dbvars, enginevars, bucket, running, planvars, month, uservars>>

\* where the endpoint goes when enforce_monthly_quota has compared the count
AfterCount_Mut_AlwaysGenerate(decision) == "load_pipe"

AfterCount(decision) == IF decision = "ok" THEN "load_pipe" ELSE "raise"

\* enforce_monthly_quota lines 62-66: await get_user_month_count, compare, and
\* (no await in between) enter generate_image_key_or_url on the event loop; in
\* create_asset the next statement is the await of db.begin()
AdmitReadCount(r) ==
    /\ running = None
    /\ req[r].pc = "admit_count"
    /\ \/ /\ req' = [req EXCEPT ![r] = DoneFrame(@, "get_user_month_count", ReadFailure)]
          /\ UNCHANGED running
       \/ LET used == get_user_month_count(req[r].user)
              d == LimitDecision(req[r].limit, used)
          IN  IF AfterCount(d) = "raise"
              THEN /\ req' = [req EXCEPT ![r] =
                                DoneFrame([@ EXCEPT !.used = used, !.at = month],
                                          "enforce_monthly_quota", Http403(d))]
                   /\ UNCHANGED running
              ELSE /\ req' = [req EXCEPT ![r].pc = IF req[r].route = "create_asset"
                                                     THEN "insert" ELSE AfterCount(d),
                                         ![r].used = used, ![r].at = month,
                                         ![r].admitted = (d = "ok")]
                   /\ running' = IF req[r].route = "create_asset" THEN running ELSE r
    /\ UNCHANGED <<settings, dbvars, enginevars, bucket, planvars, month, uservars>>

(***************************************************************************)
(* Engine lifecycle manager and degradation orchestrator (image_gen.py).   *)
(***************************************************************************)
\* _device() and _dtype(device)
device == IF settings.cuda THEN "cuda" ELSE "cpu"
dtype(dev) == IF dev = "cuda" THEN "float16" ELSE "float32"

\* What a load of an engine can do: return the cached handle; or run the
\* construction (from_pretrained, memory savers, device placement), which
\* either finishes, and then the global is assigned the new engine (built,
\* ready), or raises before the assignment, the last statement of the
\* construction, and then the global is left as it was.
LoadOutcomes_Mut_NoCache(cached) ==
    {[ok |-> TRUE, handle |-> Len(engines) + 1, built |-> TRUE, ready |-> TRUE],
     [ok |-> FALSE, handle |-> None, built |-> FALSE, ready |-> FALSE]}

LoadOutcomes_Mut_Reload(cached) ==
    {[ok |-> TRUE, handle |-> Len(engines) + 1, built |-> TRUE, ready |-> TRUE],
     [ok |-> FALSE, handle |-> None, built |-> FALSE, ready |-> FALSE]}
    \cup (IF cached # None
          THEN {[ok |-> TRUE, handle |-> cached, built |-> FALSE, ready |-> TRUE]}
          ELSE {})

LoadOutcomes_Mut_EarlyAssign(cached) ==
    IF cached # None
    THEN {[ok |-> TRUE, handle |-> cached, built |-> FALSE, ready |-> TRUE]}
    ELSE {[ok |-> TRUE, handle |-> Len(engines) + 1, built |-> TRUE, ready |-> TRUE],
          [ok |-> FALSE, handle |-> Len(engines) + 1, built |-> TRUE, ready |-> FALSE],
          [ok |-> FALSE, handle |-> None, built |-> FALSE, ready |-> FALSE]}

LoadOutcomes(cached) ==
    IF cached # None
    THEN {[ok |-> TRUE, handle |-> cached, built |-> FALSE, ready |-> TRUE]}
    ELSE {[ok |-> TRUE, handle |-> Len(engines) + 1, built |-> TRUE, ready |-> TRUE],
          [ok |-> FALSE, handle |-> None, built |-> FALSE, ready |-> FALSE]}

\* the engine of _load_pipe: on _device() with _dtype(device)
PrimaryEngine ==
    [tier |-> "primary", device |-> device, dtype |-> dtype(device), ready |-> TRUE]

\* the engine of _load_pipe_cpu_fp32: torch_dtype=torch.float32, pipe.to("cpu")
CpuEngine_Mut_OnDevice ==
    [tier |-> "fallback", device |-> device, dtype |-> dtype(device), ready |-> TRUE]

CpuEngine ==
    [tier |-> "fallback", device |-> "cpu", dtype |-> "float32", ready |-> TRUE]

\* the global and the engines after a load with outcome o
Assigned(global, o) == IF o.built THEN o.handle ELSE global
Constructed(o, engine) ==
    IF o.built THEN Append(engines, [engine EXCEPT !.ready = o.ready]) ELSE engines

\* the RenderPlan of the call in frame f
PlanOf(f) == RenderPlan(f.width, f.height, settings.sd_max_mp)

\* fallback_mp = min(settings.sd_max_mp, 1.0)
fallback_mp(sd_max_mp) == Min(sd_max_mp, HardCapMilliMp)

\* fb_w, fb_h of line 218
FallbackSize(f) ==
    LET p == PlanOf(f)
        fb == maybe_downscale_for_budget(p.target_width, p.target_height,
                                         fallback_mp(settings.sd_max_mp))
    IN  <<fb.w, fb.h>>

\* _run_pipe_safe lines 130 and 140: the errors that swap to the CPU/FP32 pipe
SwapsToCpu(e) == e \in {"oom", "half"}

\* line 181: pipe = _load_pipe(); lines 184-190: the plan. payload.width and
\* payload.height are read here for the first time (routes.py lines 143-144),
\* so they are drawn here.
LoadPipe(r) ==
    /\ running = r
    /\ req[r].pc = "load_pipe"
    /\ \E o \in LoadOutcomes(PIPE), sz \in Sizes :
         /\ PIPE' = Assigned(PIPE, o)
         /\ engines' = Constructed(o, PrimaryEngine)
         /\ IF o.ok
            THEN /\ LET f == [req[r] EXCEPT !.width = sz[1], !.height = sz[2]]
                    IN  req' = [req EXCEPT ![r] =
                                  [f EXCEPT !.pc = "run_pipe", !.phase = "primary",
                                            !.pipe = o.handle, !.touched = TRUE,
                                            !.kw = <<PlanOf(f).render_width,
                                                     PlanOf(f).render_height>>]]
                 /\ UNCHANGED running
            ELSE /\ req' = [req EXCEPT ![r] =
                               DoneFrame([@ EXCEPT !.touched = TRUE], "load_pipe", Http500)]
                 /\ running' = None
    /\ UNCHANGED <<settings, dbvars, PIPE_CPU, bucket, planvars, month, uservars>>

\* lines 232-233 and 237-238: image.resize((req_w, req_h)) when the render is smaller
Upscaled_Mut_Never(f, image) == image

Upscaled(f, image) ==
    LET p == PlanOf(f) IN
    IF f.phase = "primary"
    THEN IF p.downscaled /\ (f.kw[1] # p.target_width \/ f.kw[2] # p.target_height)
         THEN [image EXCEPT !.w = p.target_width, !.h = p.target_height]
         ELSE image
    ELSE IF f.kw[1] # p.target_width \/ f.kw[2] # p.target_height
         THEN [image EXCEPT !.w = p.target_width, !.h = p.target_height]
         ELSE image

\* an engine call returned inside _run_pipe_safe: result.images[0], the resize
Returned(r, f, handle) ==
    /\ req' = [req EXCEPT ![r] =
                 [f EXCEPT !.pc = "store",
                           !.renders = Append(f.renders,
                               [by |-> handle, w |-> f.kw[1], h |-> f.kw[2], ok |-> TRUE]),
                           !.image = Upscaled(f, [w |-> f.kw[1], h |-> f.kw[2],
                                                  by |-> handle])]]
    /\ UNCHANGED running

\* where an exception that leaves _run_pipe_safe goes: the except clause of
\* line 214 in the primary phase, out of generate_image_key_or_url otherwise
AfterRaise_Mut_NoFallback(phase) == "fail"

AfterRaise_Mut_Again(phase) == "fallback_load"

AfterRaise(phase) == IF phase = "primary" THEN "fallback_load" ELSE "fail"

Raised(r, f, where) ==
    IF AfterRaise(f.phase) = "fallback_load"
    THEN /\ req' = [req EXCEPT ![r] = [f EXCEPT !.pc = "fallback_load"]]
         /\ UNCHANGED running
    ELSE /\ req' = [req EXCEPT ![r] = DoneFrame(f, where, Http500)]
         /\ running' = None

\* _run_pipe_safe line 125: pipe(**kw)
RunPipe(r) ==
    /\ running = r
    /\ req[r].pc = "run_pipe"
    /\ LET f == req[r]
           h == IF f.phase = "primary" THEN f.pipe ELSE f.cpu_pipe
       IN  \/ Returned(r, f, h)
           \/ \E e \in Errors :
                LET g == [f EXCEPT !.renders = Append(f.renders,
                                [by |-> h, w |-> f.kw[1], h |-> f.kw[2], ok |-> FALSE]),
                            !.primary_error =
                                IF f.phase = "primary" THEN e ELSE f.primary_error]
                IN  IF SwapsToCpu(e)
                    THEN /\ req' = [req EXCEPT ![r] = [g EXCEPT !.pc = "swap_load"]]
                         /\ UNCHANGED running
                    ELSE Raised(r, g, "render")
    /\ UNCHANGED <<settings, dbvars, enginevars, bucket, planvars, month, uservars>>

\* _run_pipe_safe lines 136 and 141: cpu_pipe = _load_pipe_cpu_fp32()
SwapLoad(r) ==
    /\ running = r
    /\ req[r].pc = "swap_load"
    /\ \E o \in LoadOutcomes(PIPE_CPU) :
         /\ PIPE_CPU' = Assigned(PIPE_CPU, o)
         /\ engines' = Constructed(o, CpuEngine)
         /\ IF o.ok
            THEN /\ req' = [req EXCEPT ![r].pc = "swap_run", ![r].cpu_pipe = o.handle]
                 /\ UNCHANGED running
            ELSE Raised(r, req[r], "load_pipe_cpu_fp32")
    /\ UNCHANGED <<settings, dbvars, PIPE, bucket, planvars, month, uservars>>

\* _run_pipe_safe lines 137 and 142: return cpu_pipe(**kw)
SwapRun(r) ==
    /\ running = r
    /\ req[r].pc = "swap_run"
    /\ LET f == req[r] IN
       \/ Returned(r, f, f.cpu_pipe)
       \/ Raised(r, [f EXCEPT !.renders = Append(f.renders,
                        [by |-> f.cpu_pipe, w |-> f.kw[1], h |-> f.kw[2], ok |-> FALSE])],
                 "render")
    /\ UNCHANGED <<settings, dbvars, enginevars, bucket, planvars, month, uservars>>

\* lines 216-218: cpu_pipe = _load_pipe_cpu_fp32(); the fallback size
FallbackLoad(r) ==
    /\ running = r
    /\ req[r].pc = "fallback_load"
    /\ \E o \in LoadOutcomes(PIPE_CPU) :
         /\ PIPE_CPU' = Assigned(PIPE_CPU, o)
         /\ engines' = Constructed(o, CpuEngine)
         /\ IF o.ok
            THEN /\ req' = [req EXCEPT ![r].pc = "run_pipe", ![r].phase = "fallback",
                               ![r].cpu_pipe = o.handle, ![r].kw = FallbackSize(req[r])]
                 /\ UNCHANGED running
            ELSE /\ req' = [req EXCEPT ![r] = DoneFrame(@, "load_pipe_cpu_fp32", Http500)]
                 /\ running' = None
    /\ UNCHANGED <<settings, dbvars, PIPE, bucket, planvars, month, uservars>>

(***************************************************************************)
(* Storage (image_gen.py lines 240-261, services/s3_storage.py) and the    *)
(* rest of the endpoint (routes.py lines 148-174).                         *)
(***************************************************************************)
\* upload_png_and_return_key: the key holds a fresh uuid4 (the number of the
\* call stands for it)
upload_png_and_return_key(uuid) == [kind |-> "key", token |-> uuid, expires |-> None]

\* the local URL of lines 251 and 255-260: the filename is the timestamp
LocalUrl(timestamp) == [kind |-> "url", token |-> timestamp, expires |-> None]

\* presign_get_url(key, expires)
presign_get_url(key, expires) ==
    [kind |-> "signed", token |-> key.token, expires |-> expires]

\* datetime.utcnow() of line 251, in ticks of the clock (microseconds): not
\* before the timestamp of any file written so far, and possibly the same tick
utcnow ==
    LET stamps == {b.name.token : b \in {x \in bucket : x.name.kind = "url"}}
    IN  IF stamps = {} THEN {1}
        ELSE LET last == CHOOSE t \in stamps : \A u \in stamps : u <= t
             IN  {last, last + 1}

\* what generate_image_key_or_url can return as ident (lines 241-261)
Idents(r) ==
    IF settings.s3_endpoint THEN {upload_png_and_return_key(r)}
    ELSE {LocalUrl(t) : t \in utcnow}

\* put_object under a key / image.save to a path: a write to an existing name
\* replaces what was there
Written(r, ident) ==
    {b \in bucket : b.name # ident} \cup {[by |-> r, name |-> ident]}

\* routes.py lines 150 and 154: stored_value = ident, what the row holds
StoredValue_Mut_Public(ident, is_key) ==
    IF is_key THEN [kind |-> "signed", token |-> ident.token, expires |-> PresignExpires]
    ELSE ident

StoredValue(ident, is_key) == ident

\* routes.py lines 149-155: what the response shows
PublicForNow(ident, is_key) ==
    IF is_key THEN presign_get_url(ident, PresignExpires) ELSE ident

\* expiresIn of the response (line 174)
ExpiresIn_Mut_Always(is_key) == PresignExpires

ExpiresIn(is_key) == IF is_key THEN PresignExpires ELSE None

Http200(ident, is_key, id) ==
    [NoResponse EXCEPT !.status = 200, !.url = PublicForNow(ident, is_key),
                       !.expiresIn = ExpiresIn(is_key), !.id = id]

\* where an exception of the storage part of generate_image_key_or_url goes:
\* lines 241-261 lie after the try statement, so out of the function
AfterStoreFailure_Mut_Fallback == "fallback_load"

AfterStoreFailure == "fail"

\* lines 241-261: upload_png_and_return_key, or image.save to the local
\* directory; then generate_image_key_or_url returns and its locals are gone.
\* Without payload.asset_type_id (read here for the first time, so drawn here)
\* the endpoint answers at once (lines 149-155, 174); with it the next await
\* is db.begin() of line 160.
Store(r) ==
    /\ running = r
    /\ req[r].pc = "store"
    /\ LET f == req[r]
           is_key == settings.s3_endpoint
       IN  \/ \* put_object / image.save raises
              /\ IF AfterStoreFailure = "fail"
                 THEN /\ req' = [req EXCEPT ![r] = DoneFrame(f, "store", Http500)]
                      /\ running' = None
                 ELSE /\ req' = [req EXCEPT ![r].pc = AfterStoreFailure]
                      /\ UNCHANGED running
              /\ UNCHANGED bucket
           \/ \E ident \in Idents(r), asset_type_id \in BOOLEAN :
                LET g == [IdleFrame EXCEPT !.pc = "persist", !.route = f.route,
                                           !.user = f.user,
                                           !.persist = TRUE, !.admitted = f.admitted,
                                           !.limit = f.limit, !.used = f.used,
                                           !.at = f.at,
                                           !.touched = f.touched, !.stored = TRUE,
                                           !.is_key = is_key, !.ident = ident]
                IN  /\ bucket' = Written(r, ident)
                    /\ req' = [req EXCEPT ![r] =
                                 IF asset_type_id THEN g
                                 ELSE DoneFrame(g, "", Http200(ident, is_key, None))]
                    /\ running' = None
    /\ UNCHANGED <<settings, dbvars, enginevars, planvars, month, uservars>>

\* GeneratedAsset(user_id=current_user.id, url=stored_value, ...) of lines 161-169;
\* created_at defaults to the clock at the insert
AssetRow_Mut_Anonymous(id, user, stored_value) ==
    [id |-> id, user_id |-> "", url |-> stored_value, created_at |-> month]

AssetRow(id, user, stored_value) ==
    [id |-> id, user_id |-> user, url |-> stored_value, created_at |-> month]

\* lines 159-174: async with db.begin(): db.add(asset) (commit on exit), then
\* await db.refresh(asset). The refresh only reads, so commit and refresh are
\* one step with three outcomes.
Persist(r) ==
    /\ running = None
    /\ req[r].pc = "persist"
    /\ LET f == req[r]
           row == AssetRow(r, f.user, StoredValue(f.ident, f.is_key))
       IN  \/ \* the transaction fails: nothing is committed
              /\ req' = [req EXCEPT ![r] = DoneFrame(f, "persist", Http500)]
              /\ UNCHANGED assets
           \/ \* committed, the refresh raises
              /\ assets' = assets \cup {row}
              /\ req' = [req EXCEPT ![r] =
                            DoneFrame([f EXCEPT !.recorded = TRUE], "refresh", Http500)]
           \/ /\ assets' = assets \cup {row}
              /\ req' = [req EXCEPT ![r] =
                            DoneFrame([f EXCEPT !.recorded = TRUE], "",
                                      Http200(f.ident, f.is_key, r))]
    /\ UNCHANGED <<settings, subs, enginevars, bucket, running, planvars, month, uservars>>

\* HTTPException(status_code=404, detail="Asset not found")
Http404 == [NoResponse EXCEPT !.status = 404, !.detail = "Asset not found"]

\* asset.url.startswith("http://") or asset.url.startswith("https://"): the
\* local URLs start with settings.server_url, the keys with "generated/"
IsHttpUrl_Mut_Never(value) == FALSE

IsHttpUrl(value) == value.kind \in {"url", "signed"}

\* the body of get_asset_presigned_url after db.get (routes.py lines 184-193)
UrlResponse(asset_id, user) ==
    LET found == {a \in assets : a.id = asset_id /\ a.user_id = user}
    IN  IF found = {} THEN Http404
        ELSE LET asset == CHOOSE a \in found : TRUE
             IN  IF IsHttpUrl(asset.url)
                 THEN [NoResponse EXCEPT !.status = 200, !.url = asset.url]
                 ELSE [NoResponse EXCEPT !.status = 200,
                                         !.url = presign_get_url(asset.url, PresignExpires),
                                         !.expiresIn = PresignExpires]

\* GET /{asset_id}/url (routes.py lines 177-193): one await (db.get), then the
\* answer; the call is number r of the run
get_asset_presigned_url(r, asset_id) ==
    /\ running = None
    /\ req[r].pc = "idle"
    /\ \A q \in DOMAIN req : q < r => req[q].pc # "idle"
    /\ \E u \in Callers(r) :
         LET f == [IdleFrame EXCEPT !.route = "url", !.user = u,
                                    !.asset_id = asset_id] IN
         \/ req' = [req EXCEPT ![r] = DoneFrame(f, "db.get", Http500)]
         \/ req' = [req EXCEPT ![r] = DoneFrame(f, "", UrlResponse(asset_id, u))]
    /\ UNCHANGED <<settings, dbvars, enginevars, bucket, running, planvars, month, uservars>>

(***************************************************************************)
(* create_asset (routes.py lines 196-215): the gate, then the insert.      *)
(***************************************************************************)
\* data.url of GeneratedAssetCreate: whatever string the client sent
ClientUrl == [kind |-> "client", token |-> None, expires |-> None]

\* HTTPException(status_code=500, detail=f"Database error: {e}")
DatabaseError == [NoResponse EXCEPT !.status = 500, !.detail = "Database error"]

\* a client posts / (create_asset, call number r of the run); line 203 is the
\* gate: AdmitReadLimit and AdmitReadCount
create_asset(r) ==
    /\ running = None
    /\ req[r].pc = "idle"
    /\ \A q \in DOMAIN req : q < r => req[q].pc # "idle"
    /\ \E u \in Callers(r) :
         req' = [req EXCEPT ![r] = [IdleFrame EXCEPT !.pc = "admit_limit",
                                                     !.route = "create_asset",
                                                     !.user = u]]
    /\ UNCHANGED <<settings, dbvars, enginevars, bucket, running, planvars, month, uservars>>

\* lines 205-215: async with db.begin(): db.add(new_asset) (commit on exit);
\* a SQLAlchemyError becomes the 500 answer
Insert(r) ==
    /\ running = None
    /\ req[r].pc = "insert"
    /\ LET f == req[r]
           row == AssetRow(r, f.user, ClientUrl)
       IN  \/ /\ req' = [req EXCEPT ![r] = DoneFrame(f, "insert", DatabaseError)]
              /\ UNCHANGED assets
           \/ /\ assets' = assets \cup {row}
              /\ req' = [req EXCEPT ![r] =
                            DoneFrame([f EXCEPT !.recorded = TRUE], "",
                                      [NoResponse EXCEPT !.status = 200, !.id = r])]
    /\ UNCHANGED <<settings, subs, enginevars, bucket, running, planvars, month, uservars>>

\* the clock passes 00:00:00 UTC of the first day of a month
NextMonth ==
    /\ month < MaxMonth
    /\ month' = month + 1
    /\ UNCHANGED <<settings, dbvars, enginevars, bucket, req, running, planvars, uservars>>

(***************************************************************************)
(* Subscription routes (api/subscription/routes.py): they run between the  *)
(* await points of the generation calls.                                   *)
(***************************************************************************)
create_subscription(s, user, limit) ==
    /\ running = None
    /\ subs[s] = NoRow
    /\ subs' = [subs EXCEPT ![s] = [user_id |-> user, active |-> TRUE,
                                    max_generations_per_month |-> limit]]
    /\ UNCHANGED <<settings, assets, enginevars, bucket, req, running, planvars, month, uservars>>

\* update_subscription with data.active set (the other fields of
\* SubscriptionUpdate are not read by the gate)
update_subscription(s, active) ==
    /\ running = None
    /\ subs[s] # NoRow
    /\ subs' = [subs EXCEPT ![s] = [@ EXCEPT !.active = active]]
    /\ UNCHANGED <<settings, assets, enginevars, bucket, req, running, planvars, month, uservars>>

deactivate_subscription(s) ==
    /\ running = None
    /\ subs[s] # NoRow
    /\ subs' = [subs EXCEPT ![s] = [@ EXCEPT !.active = FALSE]]
    /\ UNCHANGED <<settings, assets, enginevars, bucket, req, running, planvars, month, uservars>>

reactivate_subscription(s) ==
    /\ running = None
    /\ subs[s] # NoRow
    /\ subs' = [subs EXCEPT ![s] = [@ EXCEPT !.active = TRUE]]
    /\ UNCHANGED <<settings, assets, enginevars, bucket, req, running, planvars, month, uservars>>

delete_subscription(s) ==
    /\ running = None
    /\ subs[s] # NoRow
    /\ subs' = [subs EXCEPT ![s] = NoRow]
    /\ UNCHANGED <<settings, assets, enginevars, bucket, req, running, planvars, month, uservars>>

(***************************************************************************)
(* The endpoint specification.                                             *)
(***************************************************************************)
Next ==
    \/ \E r \in Reqs : Start(r)
    \/ \E r \in Reqs : AdmitReadLimit(r)
    \/ \E r \in Reqs : AdmitReadCount(r)
    \/ \E r \in Reqs : LoadPipe(r)
    \/ \E r \in Reqs : RunPipe(r)
    \/ \E r \in Reqs : SwapLoad(r)
    \/ \E r \in Reqs : SwapRun(r)
    \/ \E r \in Reqs : FallbackLoad(r)
    \/ \E r \in Reqs : Store(r)
    \/ \E r \in Reqs : Persist(r)
    \/ \E r \in Reqs, a \in Reqs : get_asset_presigned_url(r, a)
    \/ \E s \in SubIds, u \in Users, l \in PlanLimits : create_subscription(s, u, l)
    \/ \E s \in SubIds : deactivate_subscription(s)
    \/ \E s \in SubIds : reactivate_subscription(s)
    \/ \E s \in SubIds : delete_subscription(s)

Spec == Init /\ [][Next]_vars

(***************************************************************************)
(* The quota specification: concurrent calls of create_asset, the          *)
(* subscription routes and the clock.                                      *)
(***************************************************************************)
\* the records the table holds when the run starts: of either user, created
\* in the month in which the run starts
OldRows ==
    {[id |-> 101, user_id |-> "u1", url |-> ClientUrl, created_at |-> 0],
     [id |-> 102, user_id |-> "u2", url |-> ClientUrl, created_at |-> 0]}

InitQuota ==
    /\ settings = [sd_max_mp |-> 1000, s3_endpoint |-> FALSE, cuda |-> FALSE]
    /\ subs = [s \in SubIds |-> NoRow]
    /\ assets \in SUBSET OldRows
    /\ PIPE = None
    /\ PIPE_CPU = None
    /\ engines = <<>>
    /\ bucket = {}
    /\ req = [r \in Reqs |-> IdleFrame]
    /\ running = None
    /\ plan_in = <<>>
    /\ plan_out = <<>>
    /\ month = 0
    /\ users = {}
    /\ ucalls = <<>>

NextQuota ==
    \/ \E r \in Reqs : create_asset(r)
    \/ \E r \in Reqs : AdmitReadLimit(r)
    \/ \E r \in Reqs : AdmitReadCount(r)
    \/ \E r \in Reqs : Insert(r)
    \/ NextMonth
    \/ \E s \in SubIds, u \in Users, l \in PlanLimits : create_subscription(s, u, l)
    \/ \E s \in SubIds, a \in BOOLEAN : update_subscription(s, a)
    \/ \E s \in SubIds : deactivate_subscription(s)
    \/ \E s \in SubIds : reactivate_subscription(s)
    \/ \E s \in SubIds : delete_subscription(s)

SpecQuota == InitQuota /\ [][NextQuota]_vars

(***************************************************************************)
(* The subscription specification: the subscription routes over two        *)
(* subscription rows, and calls of create_asset that read them.            *)
(***************************************************************************)
TwoSubIds == {"s1", "s2"}

InitSubs ==
    /\ settings = [sd_max_mp |-> 1000, s3_endpoint |-> FALSE, cuda |-> FALSE]
    /\ subs = [s \in TwoSubIds |-> NoRow]
    /\ assets = {}
    /\ PIPE = None
    /\ PIPE_CPU = None
    /\ engines = <<>>
    /\ bucket = {}
    /\ req = [r \in Reqs |-> IdleFrame]
    /\ running = None
    /\ plan_in = <<>>
    /\ plan_out = <<>>
    /\ month = 0
    /\ users = {}
    /\ ucalls = <<>>

NextSubs ==
    \/ \E r \in Reqs : create_asset(r)
    \/ \E r \in Reqs : AdmitReadLimit(r)
    \/ \E r \in Reqs : AdmitReadCount(r)
    \/ \E r \in Reqs : Insert(r)
    \/ \E s \in TwoSubIds, u \in Users, l \in PlanLimits : create_subscription(s, u, l)
    \/ \E s \in TwoSubIds, a \in BOOLEAN : update_subscription(s, a)
    \/ \E s \in TwoSubIds : deactivate_subscription(s)
    \/ \E s \in TwoSubIds : reactivate_subscription(s)
    \/ \E s \in TwoSubIds : delete_subscription(s)

SpecSubs == InitSubs /\ [][NextSubs]_vars

(***************************************************************************)
(* The sequential specification: calls of generate_asset_endpoint and of   *)
(* create_asset that arrive one after the other (a call arrives when no    *)
(* other call is in flight) from the user of the one active subscription,  *)
(* which does not change, starting from a usage within the limit.          *)
(***************************************************************************)
SeqReqs == {1, 2, 3}

\* no call is in flight
Quiet == \A q \in DOMAIN req : req[q].pc \in {"idle", "done"}

InitSeq ==
    /\ settings = [sd_max_mp |-> 1000, s3_endpoint |-> TRUE, cuda |-> TRUE]
    /\ \E l \in PlanLimits :
         /\ subs = [s \in SubIds |-> [user_id |-> "u1", active |-> TRUE,
                                      max_generations_per_month |-> l]]
         /\ assets \in {A \in SUBSET OldRows :
                           Cardinality({a \in A : a.user_id = "u1"}) <= l}
    /\ PIPE = None
    /\ PIPE_CPU = None
    /\ engines = <<>>
    /\ bucket = {}
    /\ req = [r \in SeqReqs |-> IdleFrame]
    /\ running = None
    /\ plan_in = <<>>
    /\ plan_out = <<>>
    /\ month = 0
    /\ users = {}
    /\ ucalls = <<>>

NextSeq ==
    \/ \E r \in SeqReqs : Quiet /\ Start(r) /\ req'[r].user = "u1"
    \/ \E r \in SeqReqs : Quiet /\ create_asset(r) /\ req'[r].user = "u1"
    \/ \E r \in SeqReqs : AdmitReadLimit(r)
    \/ \E r \in SeqReqs : AdmitReadCount(r)
    \/ \E r \in SeqReqs : Insert(r)
    \/ \E r \in SeqReqs : LoadPipe(r)
    \/ \E r \in SeqReqs : RunPipe(r)
    \/ \E r \in SeqReqs : SwapLoad(r)
    \/ \E r \in SeqReqs : SwapRun(r)
    \/ \E r \in SeqReqs : FallbackLoad(r)
    \/ \E r \in SeqReqs : Store(r)
    \/ \E r \in SeqReqs : Persist(r)
    \/ NextMonth

SpecSeq == InitSeq /\ [][NextSeq]_vars

(***************************************************************************)
(* The user specification: concurrent calls of get_or_create_user          *)
(* (services/users.py lines 34-60), one action per await. The database     *)
(* answers every statement; table user has keycloak_id unique and email    *)
(* unique and not null (db/models/user.py).                                *)
(***************************************************************************)
UserCalls == {1, 2, 3}
\* kc["sub"] and kc.get("email") of the tokens; NoEmail is the None of a token
\* without the email claim
NoEmail == ""
Subjects == {"k1", "k2"}
Emails == {"e1", "e2", NoEmail}

IdleCall == [pc |-> "idle", sub |-> "", email |-> NoEmail, ok |-> FALSE, user |-> NoRow]

\* User(keycloak_id=sub, email=kc.get("email"), ...)
UserRow(sub, email) == [keycloak_id |-> sub, email |-> email]

\* select(User).where(User.keycloak_id == sub)
ByKeycloakId(sub) == {u \in users : u.keycloak_id = sub}

\* the INSERT of the row violates a constraint of table user
IntegrityError(row) ==
    \/ row.email = NoEmail
    \/ \E u \in users : u.keycloak_id = row.keycloak_id \/ u.email = row.email

\* get_current_user calls get_or_create_user(db, payload) (deps/auth.py line
\* 256); the calls are numbered in the order they arrive
get_or_create_user(c) ==
    /\ ucalls[c].pc = "idle"
    /\ \A d \in DOMAIN ucalls : d < c => ucalls[d].pc # "idle"
    /\ \E sub \in Subjects, email \in Emails :
         ucalls' = [ucalls EXCEPT ![c] = [IdleCall EXCEPT !.pc = "select", !.sub = sub,
                                                          !.email = email]]
    /\ UNCHANGED <<settings, dbvars, enginevars, bucket, req, running, planvars, month,
                   users>>

\* lines 36-39: the first select; if user: return user
SelectUser(c) ==
    /\ ucalls[c].pc = "select"
    /\ LET found == ByKeycloakId(ucalls[c].sub) IN
       IF found # {}
       THEN ucalls' = [ucalls EXCEPT ![c].pc = "done", ![c].ok = TRUE,
                                     ![c].user = CHOOSE u \in found : TRUE]
       ELSE ucalls' = [ucalls EXCEPT ![c].pc = "commit"]
    /\ UNCHANGED <<settings, dbvars, enginevars, bucket, req, running, planvars, month,
                   users>>

\* lines 41-53: db.add(user); await db.commit(); except IntegrityError:
\* await db.rollback()
CommitUser(c) ==
    /\ ucalls[c].pc = "commit"
    /\ LET row == UserRow(ucalls[c].sub, ucalls[c].email) IN
       IF IntegrityError(row)
       THEN /\ ucalls' = [ucalls EXCEPT ![c].pc = "reselect"]
            /\ UNCHANGED users
       ELSE /\ users' = users \cup {row}
            /\ ucalls' = [ucalls EXCEPT ![c].pc = "refresh", ![c].user = row]
    /\ UNCHANGED <<settings, dbvars, enginevars, bucket, req, running, planvars, month>>

\* lines 54-56: the second select; res.scalar_one() raises NoResultFound when
\* no row has the keycloak_id
ReselectUser(c) ==
    /\ ucalls[c].pc = "reselect"
    /\ LET found == ByKeycloakId(ucalls[c].sub) IN
       IF found # {}
       THEN ucalls' = [ucalls EXCEPT ![c].pc = "done", ![c].ok = TRUE,
                                     ![c].user = CHOOSE u \in found : TRUE]
       ELSE ucalls' = [ucalls EXCEPT ![c].pc = "done", ![c].ok = FALSE]
    /\ UNCHANGED <<settings, dbvars, enginevars, bucket, req, running, planvars, month,
                   users>>

\* lines 59-60: await db.refresh(user); return user
RefreshUser(c) ==
    /\ ucalls[c].pc = "refresh"
    /\ ucalls' = [ucalls EXCEPT ![c].pc = "done", ![c].ok = TRUE]
    /\ UNCHANGED <<settings, dbvars, enginevars, bucket, req, running, planvars, month,
                   users>>

InitUsers ==
    /\ settings = [sd_max_mp |-> 1000, s3_endpoint |-> FALSE, cuda |-> FALSE]
    /\ subs = [s \in SubIds |-> NoRow]
    /\ assets = {}
    /\ PIPE = None
    /\ PIPE_CPU = None
    /\ engines = <<>>
    /\ bucket = {}
    /\ req = [r \in Reqs |-> IdleFrame]
    /\ running = None
    /\ plan_in = <<>>
    /\ plan_out = <<>>
    /\ month = 0
    /\ users = {}
    /\ ucalls = [c \in UserCalls |-> IdleCall]

NextUsers ==
    \/ \E c \in UserCalls : get_or_create_user(c)
    \/ \E c \in UserCalls : SelectUser(c)
    \/ \E c \in UserCalls : CommitUser(c)
    \/ \E c \in UserCalls : ReselectUser(c)
    \/ \E c \in UserCalls : RefreshUser(c)

SpecUsers == InitUsers /\ [][NextUsers]_vars

(***************************************************************************)
(* The budgeter specification: the plan of every input of a bounded grid.  *)
(***************************************************************************)
Dims == {8 * k : k \in 1..MaxDimSteps}
PlanCeilings == {100, 250, 1000, 2000}

InitPlan ==
    /\ settings = [sd_max_mp |-> 1000, s3_endpoint |-> FALSE, cuda |-> FALSE]
    /\ subs = [s \in SubIds |-> NoRow]
    /\ assets = {}
    /\ PIPE = None
    /\ PIPE_CPU = None
    /\ engines = <<>>
    /\ bucket = {}
    /\ req = [r \in Reqs |-> IdleFrame]
    /\ running = None
    /\ plan_in \in {<<[width |-> w, height |-> h, milli_mp |-> c]>> :
                        w \in Dims, h \in Dims, c \in PlanCeilings}
    /\ plan_out = <<>>
    /\ month = 0
    /\ users = {}
    /\ ucalls = <<>>

ApplyPlan ==
    /\ plan_in # <<>>
    /\ plan_out = <<>>
    /\ plan_out' = <<RenderPlan(plan_in[1].width, plan_in[1].height,
                                mp_pos(plan_in[1].milli_mp))>>
    /\ UNCHANGED <<settings, dbvars, enginevars, bucket, req, running, plan_in,
                 month, uservars>>

NextPlan == ApplyPlan

SpecPlan == InitPlan /\ [][NextPlan]_vars

(***************************************************************************)
(* The snapping specification: _snap_dim of every integer of a bounded     *)
(* range, and the plans of the requests that have it as a side.            *)
(***************************************************************************)
\* the other side of the requests
SnapOthers == {1, 700, 1409}

InitSnap ==
    /\ settings = [sd_max_mp |-> 1000, s3_endpoint |-> FALSE, cuda |-> FALSE]
    /\ subs = [s \in SubIds |-> NoRow]
    /\ assets = {}
    /\ PIPE = None
    /\ PIPE_CPU = None
    /\ engines = <<>>
    /\ bucket = {}
    /\ req = [r \in Reqs |-> IdleFrame]
    /\ running = None
    /\ plan_in \in {<<[n |-> n, other |-> m, milli_mp |-> c]>> :
                        n \in 1..MaxSnapInput, m \in SnapOthers, c \in Ceilings}
    /\ plan_out = <<>>
    /\ month = 0
    /\ users = {}
    /\ ucalls = <<>>

ApplySnap ==
    /\ plan_in # <<>>
    /\ plan_out = <<>>
    /\ LET in == plan_in[1] IN
       plan_out' = <<[snapped |-> snap_dim(in.n),
                      as_width |-> RenderPlan(in.n, in.other, mp_pos(in.milli_mp)),
                      as_height |-> RenderPlan(in.other, in.n, mp_pos(in.milli_mp))]>>
    /\ UNCHANGED <<settings, dbvars, enginevars, bucket, req, running, plan_in,
                 month, uservars>>

NextSnap == ApplySnap

SpecSnap == InitSnap /\ [][NextSnap]_vars

(***************************************************************************)
(* Properties of the quota gate and of the endpoint (Spec).                *)
(***************************************************************************)
Rejected(r, detail) ==
    req[r].response.status = 403 /\ req[r].response.detail = detail

RowsOf(user) == {a \in assets : a.user_id = user}

\* the stretch of the endpoint in which engines are loaded and invoked
GenerationPcs == {"load_pipe", "run_pipe", "swap_load", "swap_run", "fallback_load"}

\* C1: with a plan limit L read for the user, the gate rejects with "limit
\* reached" (403) exactly when the usage it counted is >= L and admits exactly
\* when it is < L, for every L (L = 0 included); the usage it compares is the
\* number of rows of that user.
C1_QuotaDecision ==
    \A r \in Reqs :
        /\ Rejected(r, LimitDetail)
              => (req[r].limit # None /\ req[r].used >= req[r].limit)
        /\ req[r].admitted
              => (req[r].limit # None /\ req[r].used < req[r].limit)
        /\ req[r].pc = "load_pipe"
              => (req[r].admitted /\ req[r].used = Cardinality(RowsOf(req[r].user)))

\* a call rejected at L = 0 with no usage, and a call admitted below its limit
C1_Witness ==
    \E r1, r2 \in Reqs :
        /\ Rejected(r1, LimitDetail) /\ req[r1].limit = 0 /\ req[r1].used = 0
        /\ req[r2].pc = "load_pipe" /\ req[r2].limit = 1 /\ req[r2].used = 0

NoActiveSubscription(user) ==
    \A s \in SubIds : subs[s] = NoRow \/ subs[s].user_id # user \/ ~subs[s].active

\* C2: a gate that reads the plan limit while the user has no active
\* subscription rejects with "no active plan" (never "limit reached", never
\* an admission), whatever the usage; so after the only subscription has been
\* deactivated every gate that starts rejects so until one is active again.
C2_NoActivePlan ==
    [][\A r \in Reqs :
          (/\ req[r].pc = "admit_limit"
           /\ req'[r].pc # "admit_limit"
           /\ req'[r].fail_at # "get_active_plan_limit"
           /\ NoActiveSubscription(req[r].user))
          => (/\ req'[r].pc = "done"
              /\ req'[r].response = Http403(NoPlanDetail)
              /\ ~req'[r].admitted)]_vars

\* a call rejected for want of a plan while the user's subscription is
\* deactivated and the user has usage (a row recorded before the deactivation)
C2_Witness ==
    \E r \in Reqs, s \in SubIds :
        /\ Rejected(r, NoPlanDetail)
        /\ subs[s] # NoRow /\ ~subs[s].active
        /\ RowsOf(subs[s].user_id) # {}
        /\ NoActiveSubscription(subs[s].user_id)

\* C3: a call loads or invokes an engine only after its gate has admitted it,
\* writes to storage only when a render has produced its image, and records a
\* row only after the write; a call rejected by the gate never loads or
\* invokes an engine and writes neither to storage nor to the rows.
C3_AdmitRenderStore ==
    \A r \in Reqs :
        /\ (req[r].pc \in GenerationPcs \/ req[r].touched) => req[r].admitted
        /\ req[r].pc = "store"
              => (/\ req[r].image # NoImage
                  /\ req[r].renders # <<>>
                  /\ req[r].renders[Len(req[r].renders)].ok)
        /\ (req[r].stored \/ \E b \in bucket : b.by = r)
              => (req[r].admitted /\ req[r].touched /\ req[r].stored)
        /\ (req[r].recorded \/ \E a \in assets : a.id = r) => req[r].stored
        /\ req[r].response.status = 403
              => (/\ ~req[r].touched /\ ~req[r].stored /\ ~req[r].recorded
                  /\ \A b \in bucket : b.by # r
                  /\ \A a \in assets : a.id # r)

\* one call went through gate, render, store and record; another was rejected
C3_Witness ==
    \E r1, r2 \in Reqs :
        /\ req[r1].response.status = 200 /\ req[r1].recorded
        /\ \E b \in bucket : b.by = r1
        /\ req[r2].response.status = 403

\* C4: when reading the plan limit or the usage fails, the call ends with the
\* server error (500), not with a 403 and not with an admission; it loads and
\* invokes no engine and stores and records nothing.
C4_DataAccessFailure ==
    \A r \in Reqs :
        req[r].fail_at \in {"get_active_plan_limit", "get_user_month_count"}
            => (/\ req[r].pc = "done"
                /\ req[r].response = Http500
                /\ ~req[r].admitted /\ ~req[r].touched
                /\ ~req[r].stored /\ ~req[r].recorded
                /\ \A b \in bucket : b.by # r
                /\ \A a \in assets : a.id # r)

\* both reads have failed, each for one call
C4_Witness ==
    \E r1, r2 \in Reqs :
        /\ req[r1].fail_at = "get_active_plan_limit"
        /\ req[r2].fail_at = "get_user_month_count"

C24_RecomputedEachRequest ==
    [][\A r \in Reqs :
          (/\ req[r].pc = "admit_count"
           /\ req'[r] # req[r]
           /\ req'[r].fail_at # "get_user_month_count"
           /\ Cardinality(RowsOf(req[r].user)) >= req[r].limit)
          => /\ Rejected(r, LimitDetail)'
             /\ req'[r].used = Cardinality(RowsOf(req[r].user))
             /\ assets' = assets]_vars

\* the case happens: a call admitted on usage 0 has committed its record, and
\* a later call of the same user under the same limit is rejected on usage 1
C24_Witness ==
    /\ req[1].admitted /\ req[1].used = 0 /\ req[1].recorded
    /\ req[1].limit = 1
    /\ Rejected(2, LimitDetail) /\ req[2].used = 1
    /\ req[2].limit = 1
    /\ req[2].user = req[1].user

(***************************************************************************)
(* Properties of the engine cache and of the fallback chain (Spec).        *)
(***************************************************************************)
EnginesOf(tier) == {i \in 1..Len(engines) : engines[i].tier = tier}

\* C6: among calls in flight before any engine is cached, one construction of
\* the primary engine takes place and every call receives that one handle;
\* the same for the CPU/FP32 engine. (A construction that raises caches
\* nothing and builds no engine.)
C6_EngineSingleton ==
    /\ Cardinality(EnginesOf("primary")) <= 1
    /\ Cardinality(EnginesOf("fallback")) <= 1
    /\ (PIPE = None) = (EnginesOf("primary") = {})
    /\ (PIPE_CPU = None) = (EnginesOf("fallback") = {})
    /\ PIPE # None => PIPE \in EnginesOf("primary")
    /\ PIPE_CPU # None => PIPE_CPU \in EnginesOf("fallback")
    /\ \A r \in Reqs :
          /\ req[r].pipe \in {None, PIPE}
          /\ req[r].cpu_pipe \in {None, PIPE_CPU}
          /\ req[r].pc \in (GenerationPcs \ {"load_pipe"}) \cup {"store"}
                => req[r].pipe # None

\* two calls were in flight before any engine was cached; one has rendered and
\* stored, the other holds the same two handles; two engines exist in all
C6_Witness ==
    \E r1, r2 \in Reqs :
        /\ r1 # r2
        /\ req[r1].pc = "persist"
        /\ req[r2].pc = "store" /\ req[r2].cold
        /\ req[r2].pipe = PIPE
        /\ req[r2].cpu_pipe # None /\ req[r2].cpu_pipe = PIPE_CPU
        /\ Len(engines) = 2

\* the call failed after its primary engine was loaded and before the write
RenderPhaseFailed(r) ==
    /\ req[r].pc = "done"
    /\ req[r].response.status = 500
    /\ req[r].touched /\ ~req[r].stored
    /\ req[r].fail_at \notin {"load_pipe", "store"}

\* C7 as stated: the render phase ends in failure only when a render on the
\* fallback tier was invoked and raised.
C7_Original ==
    \A r \in Reqs : RenderPhaseFailed(r) => req[r].fb_raised

\* C7 as amended: the render phase ends in failure only when the fallback
\* tier raised, in a render on it or in its construction; and when the primary
\* render failed and a render on the fallback engine returned, the call holds
\* an image of that engine and answers without a trace of the failure.
C7_FailureOnlyFromFallback ==
    \A r \in Reqs :
        /\ RenderPhaseFailed(r)
              => \/ req[r].fail_at = "render" /\ req[r].fb_raised
                 \/ req[r].fail_at = "load_pipe_cpu_fp32" /\ ~req[r].fb_raised
        /\ (/\ req[r].primary_error # ""
            /\ req[r].renders # <<>>
            /\ req[r].renders[Len(req[r].renders)].ok)
              => (/\ req[r].pc = "store"
                  /\ req[r].image # NoImage
                  /\ req[r].image.by = req[r].cpu_pipe
                  /\ engines[req[r].image.by] = CpuEngine)
        /\ req[r].response.status = 200
              => (req[r].response.detail = "" /\ req[r].fail_at = "")

\* one call failed in a fallback render; another recovered from a primary
\* failure with an image of the fallback engine
C7_Witness ==
    \E r1, r2 \in Reqs :
        /\ RenderPhaseFailed(r1) /\ req[r1].fb_raised
        /\ req[r2].pc = "store" /\ req[r2].primary_error # ""
        /\ req[r2].image.by = req[r2].cpu_pipe

\* C8: after an out-of-memory error of the primary render, the image returned
\* was rendered by the CPU/FP32 engine at an area of at most
\* min(ceiling, 1 MP) x 1,000,000 pixels and has the aligned target size.
C8_Original ==
    \A r \in Reqs :
        (req[r].pc = "store" /\ req[r].primary_error = "oom")
            => LET last == req[r].renders[Len(req[r].renders)]
                   p == PlanOf(req[r])
               IN  /\ engines[last.by] = CpuEngine
                   /\ last.w * last.h
                        <= Min(settings.sd_max_mp, HardCapMilliMp) * 1000
                   /\ req[r].image.w = p.target_width
                   /\ req[r].image.h = p.target_height

\* C11: every image handed to storage has the target size, the request snapped
\* to the alignment unit, on every path that produces an image (an engine
\* returns an image of the size it was asked for).
C11_StoredImageHasTargetSize ==
    \A r \in Reqs :
        req[r].pc = "store"
            => /\ req[r].image.w = snap_dim(req[r].width)
               /\ req[r].image.h = snap_dim(req[r].height)
               /\ req[r].image.w = PlanOf(req[r]).target_width
               /\ req[r].image.h = PlanOf(req[r]).target_height

\* an image of the reduced-size fallback render, resized to the target: the
\* primary attempt and its in-place CPU retry at the downscaled size had failed
C11_Witness ==
    \E r \in Reqs :
        LET f == req[r]
            last == f.renders[Len(f.renders)]
        IN  /\ f.pc = "store" /\ f.phase = "fallback"
            /\ Len(f.renders) = 3
            /\ PlanOf(f).downscaled
            /\ last.ok /\ last.w * last.h < f.image.w * f.image.h
            /\ f.image.w = PlanOf(f).target_width

\* C17: each tier's engine is constructed at most once, at most two engines
\* in all, and a cached handle is never cleared or replaced: no step changes
\* a global that holds a handle, and the engines constructed stay.
C17_EnginesForLife ==
    [][/\ PIPE # None => PIPE' = PIPE
       /\ PIPE_CPU # None => PIPE_CPU' = PIPE_CPU
       /\ Len(engines') <= 2
       /\ Cardinality(EnginesOf("primary")') <= 1
       /\ Cardinality(EnginesOf("fallback")') <= 1
       /\ Len(engines') >= Len(engines)
       /\ \A i \in 1..Len(engines) : engines'[i] = engines[i]]_vars

\* requests one after another: the first ended in a terminal failure (its
\* fallback render raised), the second, started with the primary engine
\* cached, recovered from a tier failure on the same two engines
C17_Witness ==
    /\ req[1].pc = "done" /\ req[1].fb_raised /\ req[1].response.status = 500
    /\ req[2].pc = "store" /\ ~req[2].cold
    /\ req[2].primary_error # ""
    /\ req[2].pipe = PIPE /\ req[2].cpu_pipe = PIPE_CPU
    /\ Len(engines) = 2

\* C19: no handle that a caller can obtain or has used is a half-constructed
\* engine: the globals, the handles the calls hold and the engines that
\* rendered all belong to engines whose construction has finished; a
\* construction that raised has left no handle.
C19_NoHalfConstructed ==
    /\ \A i \in 1..Len(engines) : engines[i].ready
    /\ PIPE # None => (PIPE \in 1..Len(engines) /\ engines[PIPE].ready)
    /\ PIPE_CPU # None => (PIPE_CPU \in 1..Len(engines) /\ engines[PIPE_CPU].ready)
    /\ \A r \in Reqs :
          /\ req[r].pipe # None => engines[req[r].pipe].ready
          /\ req[r].cpu_pipe # None => engines[req[r].cpu_pipe].ready
          /\ \A i \in 1..Len(req[r].renders) : engines[req[r].renders[i].by].ready
          /\ req[r].fail_at = "load_pipe" /\ PIPE = None => engines = <<>>

\* two calls that started before any engine was cached: the construction
\* raised for the first and left nothing; the second constructed the engine
\* and holds a finished one
C19_Witness ==
    /\ req[1].fail_at = "load_pipe"
    /\ req[2].cold /\ req[2].pc = "run_pipe"
    /\ Len(engines) = 1
    /\ req[2].pipe = PIPE /\ engines[PIPE].ready

\* C20: the fallback engine is constructed only in a step that handles a
\* failed primary render of the call that runs (its in-place retry or its
\* fallback), so not as long as no primary render has failed; and it is on
\* the CPU in float32 whatever the device of the primary engine.
C20_LazyFallbackEngine ==
    [][/\ (Len(engines') > Len(engines) /\ engines'[Len(engines')].tier = "fallback")
            => \E r \in Reqs :
                  /\ running = r
                  /\ req[r].pc \in {"swap_load", "fallback_load"}
                  /\ req[r].primary_error # ""
                  /\ req[r].renders[1].by = req[r].pipe
                  /\ ~req[r].renders[1].ok
       /\ \A i \in 1..Len(engines') :
             engines'[i].tier = "fallback"
                => (engines'[i].device = "cpu" /\ engines'[i].dtype = "float32")
       /\ PIPE_CPU' # None => PIPE' # None]_vars

\* with an accelerator: the primary engine is on cuda in float16, the
\* fallback engine, built after a primary failure, on the CPU in float32
C20_Witness ==
    /\ settings.cuda
    /\ PIPE # None /\ engines[PIPE].device = "cuda" /\ engines[PIPE].dtype = "float16"
    /\ PIPE_CPU # None
    /\ engines[PIPE_CPU].device = "cpu" /\ engines[PIPE_CPU].dtype = "float32"
    /\ \E r \in Reqs : req[r].pc = "store" /\ req[r].image.by = PIPE_CPU

\* the engine calls of a frame made on the engine with handle h
RendersBy(f, h) == {i \in 1..Len(f.renders) : f.renders[i].by = h}

C21_Original ==
    \A r \in Reqs :
        req[r].phase = "fallback" =>
            req[r].kw[1] * req[r].kw[2]
                < PlanOf(req[r]).render_width * PlanOf(req[r]).render_height

(***************************************************************************)
(* Properties of the storage modes and of the references (Spec).           *)
(***************************************************************************)
\* C12: a generation returns a durable key exactly when a durable-store
\* endpoint is configured and a direct URL exactly when none is; the answer
\* of the endpoint carries expiresIn = 3600 with a key and null with a URL.
C12_StorageMode ==
    /\ \A b \in bucket : (b.name.kind = "key") = settings.s3_endpoint
    /\ \A b \in bucket : (b.name.kind = "url") = ~settings.s3_endpoint
    /\ \A r \in Reqs :
          /\ req[r].pc = "persist"
                => /\ req[r].is_key = settings.s3_endpoint
                   /\ req[r].ident.kind = IF settings.s3_endpoint THEN "key" ELSE "url"
          /\ (req[r].route = "generate" /\ req[r].response.status = 200)
                => /\ (req[r].response.expiresIn = 3600) = settings.s3_endpoint
                   /\ (req[r].response.expiresIn = None) = ~settings.s3_endpoint
                   /\ req[r].response.url.kind
                        = IF settings.s3_endpoint THEN "signed" ELSE "url"

\* with a durable store configured: one generation answered at once, one
\* after its row was recorded, both with expiresIn = 3600
C12_Witness ==
    /\ settings.s3_endpoint
    /\ \E r1, r2 \in Reqs :
          /\ req[r1].route = "generate" /\ req[r1].response.status = 200
          /\ req[r1].response.id = None /\ req[r1].response.expiresIn = 3600
          /\ req[r2].route = "generate" /\ req[r2].response.status = 200
          /\ req[r2].response.id = r2 /\ req[r2].response.expiresIn = 3600

\* C13: any two successful stores write under distinct names, in both modes
\* and also within one clock tick, so that the artifact of every call that has
\* stored is still in storage under that call's name.
C13_Original ==
    \A r \in Reqs :
        req[r].stored => \E b \in bucket : b.by = r

\* C14: a step in which the write of the rendered image fails ends the call
\* with a failure that carries no reference; the call records no row, and no
\* engine is loaded or invoked because of the failure (the call is over).
C14_StorageFailure ==
    [][\A r \in Reqs :
          (req[r].pc = "store" /\ req'[r].pc # "store" /\ bucket' = bucket)
              => /\ req'[r].pc = "done"
                 /\ req'[r].fail_at = "store"
                 /\ req'[r].response = Http500
                 /\ req'[r].response.url = NoIdent
                 /\ ~req'[r].stored /\ ~req'[r].recorded
                 /\ \A a \in assets' : a.id # r
                 /\ running' = None
                 /\ UNCHANGED <<assets, enginevars>>]_vars

\* the write failed for one call after its render; the other call stored and
\* recorded its row
C14_Witness ==
    \E r1, r2 \in Reqs :
        /\ req[r1].fail_at = "store" /\ req[r1].response.status = 500
        /\ req[r1].touched /\ ~req[r1].stored
        /\ \A b \in bucket : b.by # r1
        /\ req[r2].recorded /\ assets = {a \in assets : a.id = r2} /\ assets # {}

\* no signed URL is in persistent state: rows and storage hold keys or local
\* URLs, and with a durable store the rows hold keys
NoSignedUrlPersisted ==
    /\ \A a \in assets :
          /\ a.url.kind \in {"key", "url"} /\ a.url.expires = None
          /\ settings.s3_endpoint => a.url.kind = "key"
    /\ \A b \in bucket : b.name.kind \in {"key", "url"}
    /\ \A r \in Reqs : req[r].ident.kind \in {"", "key", "url"}

\* every answer that shows a key shows a URL signed for it, valid for 3600 s
SignedAnswers ==
    \A r \in Reqs :
        (settings.s3_endpoint /\ req[r].response.status = 200)
            => /\ req[r].response.url.kind = "signed"
               /\ req[r].response.url.expires = 3600
               /\ req[r].response.expiresIn = 3600
               /\ req[r].route = "generate" => req[r].response.url.token = r
               /\ req[r].route = "url"
                     => \E a \in assets :
                           req[r].response.url = presign_get_url(a.url, 3600)

\* C18: in durable-key mode a row holds the object key, never a signed URL;
\* every generation answer and every retrieval answer carries a URL signed
\* for the key with a validity of 3600 seconds, and a retrieval writes
\* nothing: no signed URL reaches the rows or storage.
C18_KeyPersistedUrlSigned ==
    [][/\ NoSignedUrlPersisted'
       /\ SignedAnswers'
       /\ \A r \in Reqs :
             (req[r].pc = "idle" /\ req'[r].route = "url")
                 => UNCHANGED <<assets, bucket>>]_vars

\* durable-key mode: call 1 generated and recorded a row that holds the key,
\* its answer showed a signed URL; call 2 retrieved the asset and was answered
\* with a URL signed for the same key, expiresIn = 3600
C18_Witness ==
    /\ settings.s3_endpoint
    /\ req[1].route = "generate" /\ req[1].response.status = 200
    /\ req[1].response.id = 1 /\ req[1].response.url.kind = "signed"
    /\ \E a \in assets : a.id = 1 /\ a.url = upload_png_and_return_key(1)
    /\ req[2].route = "url" /\ req[2].response.status = 200
    /\ req[2].response.url = presign_get_url(upload_png_and_return_key(1), 3600)
    /\ req[2].response.expiresIn = 3600

\* call r is answered by get_asset_presigned_url in this step, db.get having
\* succeeded
RetrievalStep(r) ==
    /\ req[r].pc = "idle"
    /\ req'[r].route = "url"
    /\ req'[r].fail_at = ""

C29_Original ==
    \A r \in Reqs :
        (req[r].route = "generate" /\ req[r].pc = "done"
            /\ req[r].response.status # 200)
        => ~ \E b \in bucket : b.by = r

(***************************************************************************)
(* Properties of the budgeter (SpecPlan).                                  *)
(***************************************************************************)
\* t is n snapped to the alignment unit: a multiple of 64, at least 64, and
\* a nearest one to n unless n is below half a unit
IsSnapOf(t, n) ==
    /\ t % 64 = 0
    /\ t >= 64
    /\ \/ (t - n <= 32 /\ n - t <= 32)
       \/ (n < 32 /\ t = 64)

PlanInput == plan_in[1]
PlanResult == plan_out[1]
PlanBudget == mp_pos(PlanInput.milli_mp) * 1000

\* C9: a request of more than ceiling x 1,000,000 pixels is planned at a
\* render area within the ceiling, with the snapped request as target.
C9_Original ==
    (plan_out # <<>> /\ PlanInput.width * PlanInput.height > PlanBudget)
        => /\ PlanResult.render_width * PlanResult.render_height <= PlanBudget
           /\ IsSnapOf(PlanResult.target_width, PlanInput.width)
           /\ IsSnapOf(PlanResult.target_height, PlanInput.height)

\* C10 as stated: a request of at most ceiling x 1,000,000 pixels is planned
\* without downscale, at the snapped request.
C10_Original ==
    (plan_out # <<>> /\ PlanInput.width * PlanInput.height <= PlanBudget)
        => /\ ~PlanResult.downscaled
           /\ PlanResult.render_width = PlanResult.target_width
           /\ PlanResult.render_height = PlanResult.target_height

\* C10 as amended: the target is the request snapped, and a request whose
\* snapped area is at most ceiling x 1,000,000 pixels is planned without
\* downscale, render size = target size.
C10_SnappedWithinBudget ==
    plan_out # <<>>
        => /\ IsSnapOf(PlanResult.target_width, PlanInput.width)
           /\ IsSnapOf(PlanResult.target_height, PlanInput.height)
           /\ (PlanResult.target_width * PlanResult.target_height <= PlanBudget)
                 => (/\ ~PlanResult.downscaled
                     /\ PlanResult.render_width = PlanResult.target_width
                     /\ PlanResult.render_height = PlanResult.target_height)

\* 800 x 1200 under 1 MP: snapped to 768 x 1216, within budget, not downscaled
C10_Witness ==
    /\ plan_out # <<>>
    /\ PlanInput = [width |-> 800, height |-> 1200, milli_mp |-> 1000]
    /\ PlanResult = [render_width |-> 768, render_height |-> 1216,
                     target_width |-> 768, target_height |-> 1216,
                     downscaled |-> FALSE]

(***************************************************************************)
(* Properties of the alignment snapping (SpecSnap).                        *)
(***************************************************************************)
\* t is a positive multiple of the alignment unit
IsAligned(t) == t % SnapBase = 0 /\ t >= SnapBase

\* no multiple of the alignment unit is nearer to n than t is
IsNearest(t, n) ==
    \A k \in 0..(n \div SnapBase + 1) :
        LET m == k * SnapBase
            dt == IF t >= n THEN t - n ELSE n - t
            dm == IF m >= n THEN m - n ELSE n - m
        IN  dt <= dm

AlignedPlan(p) ==
    /\ IsAligned(p.render_width) /\ IsAligned(p.render_height)
    /\ IsAligned(p.target_width) /\ IsAligned(p.target_height)

\* C22: for every integer n > 0, snapping n to the alignment unit 64 gives a
\* multiple of 64 that is at least 64 and, when n >= 32, a nearest multiple of
\* 64 to n (at distance at most 32); and every render and target dimension of
\* every plan is a positive multiple of 64.
C22_SnapAligned ==
    plan_out # <<>> =>
        LET n == plan_in[1].n
            t == plan_out[1].snapped
        IN  /\ n > 0
            /\ IsAligned(t)
            /\ n >= 32 => (IsNearest(t, n) /\ t - n <= 32 /\ n - t <= 32)
            /\ AlignedPlan(plan_out[1].as_width)
            /\ AlignedPlan(plan_out[1].as_height)

\* the cases happen: a tie between two multiples (1056 is 32 from 1024 and
\* from 1088) that is snapped down, in a request that is downscaled to the budget
C22_Witness ==
    /\ plan_out # <<>>
    /\ plan_in[1].n = 1056
    /\ plan_out[1].snapped = 1024
    /\ plan_in[1].other = 1409
    /\ plan_out[1].as_height.downscaled
    /\ plan_out[1].as_height.render_width < plan_out[1].as_height.target_width

(***************************************************************************)
(* Properties of the monthly period (SpecQuota).                           *)
(***************************************************************************)
\* the records of the user created in the month of the clock
CurrentRows(user) == {a \in assets : a.user_id = user /\ ~(a.created_at < month)}

\* the records of the user created in the month before
LastMonthRows(user) == {a \in assets : a.user_id = user /\ a.created_at = month - 1}

\* call r reads the count in this step, and the read succeeds
CountStep(r) ==
    /\ req[r].pc = "admit_count"
    /\ req'[r] # req[r]
    /\ req'[r].fail_at # "get_user_month_count"

\* call q was rejected with "limit reached" in an earlier month, for the user
\* and under the limit of call r
RejectedBefore(q, r) ==
    /\ Rejected(q, LimitDetail)
    /\ req[q].user = req[r].user
    /\ req[q].limit = req[r].limit
    /\ req[q].at < month

\* C23 as stated: a user who was rejected with "limit reached" is admitted by
\* the first admit after the month boundary when the limit is the same.
C23_Original ==
    [][\A r \in DOMAIN req :
          (/\ CountStep(r)
           /\ \E q \in DOMAIN req : RejectedBefore(q, r)
           /\ \A q \in DOMAIN req \ {r} : req[q].at < month)
          => req'[r].admitted]_vars

\* C23 (amended): the usage the gate compares is exactly the number of the
\* user's records created at or after the start of the current month (records
\* of other users and of earlier months do not count), and an admit that finds
\* no record of the user in the current month admits when the limit is
\* positive and the reads succeed.
C23_MonthlyUsage ==
    [][\A r \in DOMAIN req :
          CountStep(r) =>
              LET n == Cardinality(CurrentRows(req[r].user)) IN
              /\ req'[r].used = n
              /\ Rejected(r, LimitDetail)' <=> n >= req[r].limit
              /\ (n = 0 /\ req[r].limit > 0) =>
                    (req'[r].admitted /\ req'[r].pc = "insert")]_vars

\* the case happens: a call rejected with "limit reached", and after the month
\* boundary a call of a user with a record of the month before admitted on
\* usage 0
C23_Witness ==
    \E q \in DOMAIN req, r \in DOMAIN req :
        /\ RejectedBefore(q, r)
        /\ req[q].used = 1
        /\ req[r].pc = "insert"
        /\ req[r].admitted
        /\ req[r].used = 0
        /\ req[r].at = month
        /\ LastMonthRows(req[r].user) # {}

(***************************************************************************)
(* Properties of the calls that arrive one after the other (SpecSeq).      *)
(***************************************************************************)
\* the limit of the subscription of the run
SeqLimit == subs["s1"].max_generations_per_month

\* C26: without concurrent requests, under one active subscription whose limit
\* L does not change and from a usage of at most L, the records of the user in
\* the current period never exceed L after any sequence of generate and
\* create_asset calls: a record is only added by a call whose admit saw a
\* usage below L.
C26_NeverExceedsLimit ==
    /\ Cardinality(CurrentRows("u1")) <= SeqLimit
    /\ \A a \in assets :
          a.id \in DOMAIN req =>
              /\ req[a.id].admitted
              /\ req[a.id].limit = SeqLimit
              /\ req[a.id].used < SeqLimit

\* the case happens: a generate call has added the record that fills the
\* limit, and a later create_asset call is rejected with "limit reached"
C26_Witness ==
    \E r \in DOMAIN req, q \in DOMAIN req :
        /\ r < q
        /\ req[r].route = "generate" /\ req[r].recorded
        /\ req[q].route = "create_asset" /\ Rejected(q, LimitDetail)
        /\ req[q].at = req[r].at
        /\ Cardinality(CurrentRows("u1")) = SeqLimit
        /\ SeqLimit = 1

\* call r of generate_asset_endpoint returns successfully
Succeeded(r) ==
    req[r].route = "generate" /\ req[r].pc = "done" /\ req[r].response.status = 200

\* the successful generate calls whose admit was in month m
SucceededIn(m) == {r \in DOMAIN req : Succeeded(r) /\ req[r].at = m}

\* C27 as stated: every generate request that returns successfully has added
\* one record of the requester, so at most L generate requests of the user
\* succeed within one period.
C27_Original ==
    /\ \A r \in DOMAIN req : Succeeded(r) => \E a \in assets : a.id = r
    /\ \A m \in 0..MaxMonth : Cardinality(SucceededIn(m)) <= SeqLimit

\* the successful generate calls that answered with the id of a record
Recorded == {r \in DOMAIN req : Succeeded(r) /\ req[r].response.id # None}

\* C27 (amended): a generate request that carries asset_type_id and returns
\* successfully has increased the requester's usage of the current period by
\* exactly one, and the records of one period that such requests have added
\* are at most L; a generate request without asset_type_id returns
\* successfully without a record and leaves the usage as it was.
C27_RecordedCountsOnce ==
    [][\A r \in DOMAIN req :
          (req[r].pc # "done" /\ Succeeded(r)') =>
              LET u == req[r].user IN
              IF req'[r].response.id # None
              THEN /\ req'[r].response.id = r
                   /\ \E a \in assets' \ assets :
                         /\ assets' = assets \cup {a}
                         /\ a.id = r /\ a.user_id = u /\ a.created_at = month
                   /\ Cardinality(CurrentRows(u))' = Cardinality(CurrentRows(u)) + 1
                   /\ \A m \in 0..MaxMonth :
                         Cardinality({q \in Recorded' :
                                         \E a \in assets' : a.id = q /\ a.created_at = m})
                             <= SeqLimit
              ELSE assets' = assets]_vars

\* the cases happen: a generate call with asset_type_id has added the record
\* that fills the limit, and a generate call without it has succeeded with no
\* record
C27_Witness ==
    \E r \in DOMAIN req, q \in DOMAIN req :
        /\ Succeeded(r) /\ req[r].response.id = r
        /\ \E a \in assets : a.id = r /\ a.user_id = "u1"
        /\ Succeeded(q) /\ req[q].response.id = None
        /\ ~ \E a \in assets : a.id = q
        /\ SeqLimit = 1

(***************************************************************************)
(* Properties of the subscription routes (SpecSubs).                       *)
(***************************************************************************)
\* C28: after any sequence of subscription operations every user has at most
\* one active subscription, so the limit that admit reads is uniquely
\* determined.
C28_Original ==
    \A u \in Users :
        /\ Cardinality(ActiveSubs(u)) <= 1
        /\ Cardinality(get_active_plan_limit(u)) = 1

(***************************************************************************)
(* Properties of get_or_create_user (SpecUsers).                           *)
(***************************************************************************)
\* the calls made with subject sub
CallsOf(sub) == {c \in UserCalls : ucalls[c].sub = sub}

\* C30: for any interleaving of concurrent get_or_create_user calls with the
\* same subject, once the calls have ended exactly one user row with the
\* subject exists and every call has returned that user: no call fails.
C30_Original ==
    \A sub \in Subjects :
        (CallsOf(sub) # {} /\ \A c \in CallsOf(sub) : ucalls[c].pc = "done")
        => /\ Cardinality(ByKeycloakId(sub)) = 1
           /\ \A c \in CallsOf(sub) :
                 ucalls[c].ok /\ ucalls[c].user \in ByKeycloakId(sub)

====
